---- MODULE Spec2Model ----
(***************************************************************************)
(* Model of the aggregation and projection engine of src/app.py: the       *)
(* projector (calculate_projection), the aggregator                        *)
(* (generate_projection_summary), the two table builders                   *)
(* (process_department_data, process_municipality_data) and the data       *)
(* quality checker (check_data_quality).                                   *)
(*                                                                         *)
(* Python values are modelled as follows.                                  *)
(*   dict        a sequence of <<key, value>> pairs with distinct keys, in *)
(*               insertion order (Python dicts iterate in that order)      *)
(*   JSON object a TLA+ record whose DOMAIN holds the fields present, so   *)
(*               that .get(field, default) is decided by the DOMAIN        *)
(*   float       an exact rational <<numerator, denominator>> in lowest    *)
(*               terms with a positive denominator                         *)
(*   str order   the position of the string in StrOrder                    *)
(***************************************************************************)
EXTENDS Integers, Sequences, FiniteSets, TLC

VARIABLES data, op, result

vars == <<data, op, result>>

(***************************************************************************)
(* Exact rationals standing for Python floats.                             *)
(***************************************************************************)
Abs(n) == IF n < 0 THEN -n ELSE n

RECURSIVE Gcd(_, _)
Gcd(a, b) == IF b = 0 THEN a ELSE Gcd(b, a % b)

Norm(n, d) ==
  LET g == Gcd(Abs(n), Abs(d))
      s == IF d < 0 THEN -1 ELSE 1
  IN <<(s * n) \div g, (s * d) \div g>>

Rat(n) == <<n, 1>>

RatAdd(a, b) == Norm(a[1] * b[2] + b[1] * a[2], a[2] * b[2])

RatMul(a, b) == Norm(a[1] * b[1], a[2] * b[2])

RatDiv(a, b) == Norm(a[1] * b[2], a[2] * b[1])

RatLess(a, b) == a[1] * b[2] < b[1] * a[2]

RatLeq(a, b) == a[1] * b[2] <= b[1] * a[2]

\* Python 3 round(x) on a float: to the nearest integer, a tie to the even one.
PyRound(x) ==
  LET q == x[1] \div x[2]
      r == x[1] % x[2]
  IN IF 2 * r < x[2] THEN q
     ELSE IF 2 * r > x[2] THEN q + 1
     ELSE IF q % 2 = 0 THEN q ELSE q + 1

(***************************************************************************)
(* Python dicts and JSON objects.                                          *)
(***************************************************************************)
\* obj.get(field, default)
Get(obj, field, default) == IF field \in DOMAIN obj THEN obj[field] ELSE default

\* The keys of a dict, in iteration order.
Keys(d) == [i \in 1..Len(d) |-> d[i][1]]

KeySet(d) == {d[i][1] : i \in 1..Len(d)}

\* d[key], for a key of d.
Lookup(d, key) == d[CHOOSE i \in 1..Len(d) : d[i][1] = key][2]

\* d[key] = value: an existing key keeps its place, a new one goes last.
Store(d, key, value) ==
  IF key \in KeySet(d)
  THEN [i \in 1..Len(d) |-> IF d[i][1] = key THEN <<key, value>> ELSE d[i]]
  ELSE Append(d, <<key, value>>)

\* The first n elements of a sequence: s[:n].
Take(s, n) == SubSeq(s, 1, IF Len(s) < n THEN Len(s) ELSE n)

(***************************************************************************)
(* Program constants.                                                      *)
(***************************************************************************)
PseudoRows == {"Información General", "Información Acta"}

ReservedKeys == {"raw_data", "Nacional"}

OverseasKey == "VOTO EN EL EXTERIOR"

Desconocido == "Desconocido"

\* The headline and the tables keep the first three candidates.
TopN == 3

\* Every string the model uses as a key or a name, in Python's str order
\* (by code point: upper case before lower case).
StrOrder ==
  <<"A", "B", "C", "Candidato Largo Dos", "Candidato Largo Uno", "Desconocido",
    "Información Acta", "Información General", "Nacional",
    "VOTO EN EL EXTERIOR", "X", "Y", "m1", "m2", "raw_data">>

StrIndex(s) == CHOOSE i \in 1..Len(StrOrder) : StrOrder[i] = s

\* a < b on two str values
StrLess(a, b) == StrIndex(a) < StrIndex(b)

(***************************************************************************)
(* calculate_projection                                                    *)
(***************************************************************************)
ClampedProjection(current_votes, actas_percentage) ==
  IF actas_percentage <= 0 THEN Rat(current_votes)
  ELSE IF actas_percentage > 100 THEN Rat(current_votes)
  ELSE Norm(current_votes * 100, actas_percentage)

calculate_projection(current_votes, actas_percentage) ==
  IF actas_percentage <= 0 THEN Rat(current_votes)
  ELSE Norm(current_votes * 100, actas_percentage)

(***************************************************************************)
(* generate_projection_summary                                             *)
(***************************************************************************)
\* Variants of the two filters below that let everything through.
NoRowIsPseudo(name) == FALSE

IsPseudoRow(name) == name \in PseudoRows

NoKeyIsReserved(dept_name) == FALSE

IsReservedKey(dept_name) == dept_name \in ReservedKeys

\* A variant that skips an entry without a name or without votes.
AddCompleteCandidate(global_totals, cand, actas_pct) ==
  IF {"name", "votes"} \subseteq DOMAIN cand /\ ~IsPseudoRow(cand.name)
  THEN LET old == IF cand.name \in KeySet(global_totals)
                  THEN Lookup(global_totals, cand.name)
                  ELSE [current |-> 0, projected |-> Rat(0)]
       IN Store(global_totals, cand.name,
                [current |-> old.current + cand.votes,
                 projected |-> RatAdd(old.projected,
                                      calculate_projection(cand.votes, actas_pct))])
  ELSE global_totals

\* The body of the loop over one region's candidates: one candidate entry added
\* to global_totals, which maps a name to its 'current' and 'projected' sums.
AddCandidate(global_totals, cand, actas_pct) ==
  LET name == Get(cand, "name", Desconocido)
      votes == Get(cand, "votes", 0)
  IN IF IsPseudoRow(name) THEN global_totals
     ELSE LET old == IF name \in KeySet(global_totals)
                     THEN Lookup(global_totals, name)
                     ELSE [current |-> 0, projected |-> Rat(0)]
              proj == calculate_projection(votes, actas_pct)
          IN Store(global_totals, name,
                   [current |-> old.current + votes,
                    projected |-> RatAdd(old.projected, proj)])

\* for cand in candidates: ...
RECURSIVE AddCandidates(_, _, _)
AddCandidates(global_totals, candidates, actas_pct) ==
  IF candidates = <<>> THEN global_totals
  ELSE AddCandidates(AddCandidate(global_totals, Head(candidates), actas_pct),
                     Tail(candidates), actas_pct)

\* A variant that adds the current votes as the projection.
AddRegionUnprojected(global_totals, region_data) ==
  AddCandidates(global_totals, Get(region_data, "candidates", <<>>), 100)

\* One leaf region (a department, or a municipality) added to global_totals.
AddRegion(global_totals, region_data) ==
  AddCandidates(global_totals,
                Get(region_data, "candidates", <<>>),
                Get(region_data, "actas_percentage", 0))

\* for mun_name, mun_data in municipios.items(): ...
RECURSIVE AddMunicipios(_, _)
AddMunicipios(global_totals, municipios) ==
  IF municipios = <<>> THEN global_totals
  ELSE AddMunicipios(AddRegion(global_totals, Head(municipios)[2]),
                     Tail(municipios))

\* for dept_name, dept_data in departments.items(): ...
RECURSIVE AddDepartments(_, _, _)
AddDepartments(global_totals, departments, calculation_mode) ==
  IF departments = <<>> THEN global_totals
  ELSE LET dept_name == Head(departments)[1]
           dept_data == Head(departments)[2]
           next == IF IsReservedKey(dept_name) THEN global_totals
                   ELSE IF calculation_mode = "DEPARTAMENTOS"
                        THEN AddRegion(global_totals, dept_data)
                   ELSE IF calculation_mode = "MUNICIPIOS"
                        THEN AddMunicipios(global_totals,
                                           Get(dept_data, "municipios", <<>>))
                   ELSE global_totals
       IN AddDepartments(next, Tail(departments), calculation_mode)

GlobalTotals(d, calculation_mode) ==
  AddDepartments(<<>>, d.departments, calculation_mode)

\* A variant that sums the current votes.
RECURSIVE SumCurrent(_)
SumCurrent(global_totals) ==
  IF global_totals = <<>> THEN Rat(0)
  ELSE RatAdd(Rat(Head(global_totals)[2].current), SumCurrent(Tail(global_totals)))

\* sum(t['projected'] for t in global_totals.values())
RECURSIVE SumProjected(_)
SumProjected(global_totals) ==
  IF global_totals = <<>> THEN Rat(0)
  ELSE RatAdd(Head(global_totals)[2].projected, SumProjected(Tail(global_totals)))

\* The results list before sorting: one entry per key of global_totals.
StatsOf(global_totals) ==
  LET grand_total_projected == SumProjected(global_totals)
  IN [i \in 1..Len(global_totals) |->
        LET proj == global_totals[i][2].projected
        IN [Candidate |-> global_totals[i][1],
            CurrentVotes |-> global_totals[i][2].current,
            ProjectedVotes |-> proj,
            Percentage |-> IF RatLess(Rat(0), grand_total_projected)
                           THEN RatMul(RatDiv(proj, grand_total_projected), Rat(100))
                           ELSE Rat(0)]]

\* list.sort(key=..., reverse=True) is stable: an entry goes after every entry
\* whose key is greater than or equal to its own.
RECURSIVE InsertDescending(_, _)
InsertDescending(sorted, x) ==
  IF sorted = <<>> THEN <<x>>
  ELSE IF RatLeq(x.ProjectedVotes, Head(sorted).ProjectedVotes)
       THEN <<Head(sorted)>> \o InsertDescending(Tail(sorted), x)
       ELSE <<x>> \o sorted

RECURSIVE SortAcc(_, _)
SortAcc(sorted, rest) ==
  IF rest = <<>> THEN sorted
  ELSE SortAcc(InsertDescending(sorted, Head(rest)), Tail(rest))

\* results.sort(key=lambda x: x['Projected Votes'], reverse=True)
SortByProjected(results) == SortAcc(<<>>, results)

\* A variant that does not truncate.
KeepAll(results) == results

\* results[:3]
Headline(results) == Take(results, TopN)

\* A variant that reports a placeholder entry where there is no candidate.
SummaryWithPlaceholder(d, calculation_mode) ==
  IF "departments" \notin DOMAIN d THEN <<>>
  ELSE LET results == Headline(SortByProjected(StatsOf(GlobalTotals(d, calculation_mode))))
       IN IF results = <<>>
          THEN <<[Candidate |-> Desconocido, CurrentVotes |-> 0,
                  ProjectedVotes |-> Rat(0), Percentage |-> Rat(0)]>>
          ELSE results

generate_projection_summary(d, calculation_mode) ==
  IF "departments" \notin DOMAIN d THEN <<>>
  ELSE Headline(SortByProjected(StatsOf(GlobalTotals(d, calculation_mode))))

(***************************************************************************)
(* process_department_data and process_municipality_data                   *)
(***************************************************************************)
\* cand[:15], the candidate's part of a column label, on the strings of
\* StrOrder: every name longer than fifteen characters is cut, the two long
\* candidate names to the same label.
Label(cand) ==
  CASE cand \in {"Candidato Largo Uno", "Candidato Largo Dos"} -> "Candidato Largo"
    [] cand = "Información General" -> "Información Gen"
    [] cand = "Información Acta" -> "Información Act"
    [] cand = "VOTO EN EL EXTERIOR" -> "VOTO EN EL EXTE"
    [] OTHER -> cand

\* [c for c in candidates if c.get('name') not in [...]]: an entry without a
\* name has the name None, which is in no list of strings.
RECURSIVE FilterCandidates(_)
FilterCandidates(candidates) ==
  IF candidates = <<>> THEN <<>>
  ELSE LET c == Head(candidates)
       IN IF "name" \in DOMAIN c /\ IsPseudoRow(c.name)
          THEN FilterCandidates(Tail(candidates))
          ELSE <<c>> \o FilterCandidates(Tail(candidates))

\* sum(c.get('votes', 0) for c in candidates)
RECURSIVE SumVotes(_)
SumVotes(candidates) ==
  IF candidates = <<>> THEN 0
  ELSE Get(Head(candidates), "votes", 0) + SumVotes(Tail(candidates))

\* sorted(candidates, key=lambda x: x.get('votes', 0), reverse=True): stable.
RECURSIVE InsertByVotes(_, _)
InsertByVotes(sorted, c) ==
  IF sorted = <<>> THEN <<c>>
  ELSE IF Get(c, "votes", 0) <= Get(Head(sorted), "votes", 0)
       THEN <<Head(sorted)>> \o InsertByVotes(Tail(sorted), c)
       ELSE <<c>> \o sorted

RECURSIVE SortByVotesAcc(_, _)
SortByVotesAcc(sorted, rest) ==
  IF rest = <<>> THEN sorted
  ELSE SortByVotesAcc(InsertByVotes(sorted, Head(rest)), Tail(rest))

SortByVotes(candidates) == SortByVotesAcc(<<>>, candidates)

\* [c.get('name', 'Desconocido') for c in sorted_cands[:3]]
TopNames(candidates) ==
  LET sorted_cands == Take(SortByVotes(candidates), TopN)
  IN [i \in 1..Len(sorted_cands) |-> Get(sorted_cands[i], "name", Desconocido)]

\* The first loop of both table builders: the names of the three candidates
\* with the most votes in the first department, in the order of
\* departments.items(), whose filtered candidates have votes; [] if none has.
RECURSIVE TopCandidates(_)
TopCandidates(departments) ==
  IF departments = <<>> THEN <<>>
  ELSE LET dept_name == Head(departments)[1]
           dept_data == Head(departments)[2]
           candidates == FilterCandidates(Get(dept_data, "candidates", <<>>))
       IN IF IsReservedKey(dept_name) THEN TopCandidates(Tail(departments))
          ELSE IF candidates # <<>> /\ SumVotes(candidates) > 0
               THEN TopNames(candidates)
               ELSE TopCandidates(Tail(departments))

\* sorted(departments.keys())
RECURSIVE InsertKey(_, _)
InsertKey(sorted, k) ==
  IF sorted = <<>> THEN <<k>>
  ELSE IF StrLess(k, Head(sorted)) THEN <<k>> \o sorted
       ELSE <<Head(sorted)>> \o InsertKey(Tail(sorted), k)

RECURSIVE SortedKeysAcc(_, _)
SortedKeysAcc(sorted, rest) ==
  IF rest = <<>> THEN sorted
  ELSE SortedKeysAcc(InsertKey(sorted, Head(rest)), Tail(rest))

SortedKeys(d) == SortedKeysAcc(<<>>, Keys(d))

\* {c.get('name', 'Desconocido'): c.get('votes', 0) for c in candidates}
RECURSIVE CandVotesAcc(_, _)
CandVotesAcc(cand_votes, candidates) ==
  IF candidates = <<>> THEN cand_votes
  ELSE CandVotesAcc(Store(cand_votes, Get(Head(candidates), "name", Desconocido),
                          Get(Head(candidates), "votes", 0)),
                    Tail(candidates))

CandVotes(candidates) == CandVotesAcc(<<>>, candidates)

\* {c: {'current': 0, 'projected': 0.0} for c in top_candidates}
RECURSIVE InitTotalsAcc(_, _)
InitTotalsAcc(totals, top_candidates) ==
  IF top_candidates = <<>> THEN totals
  ELSE InitTotalsAcc(Store(totals, Head(top_candidates),
                           [current |-> 0, projected |-> Rat(0)]),
                     Tail(top_candidates))

InitTotals(top_candidates) == InitTotalsAcc(<<>>, top_candidates)

\* A variant that shows the current votes as the projection.
RowProjectionUnscaled(votes, actas_pct) == votes

\* The 'Proyectado' cell of one candidate in one region's row.
RowProjection(votes, actas_pct) ==
  IF actas_pct > 0 THEN PyRound(calculate_projection(votes, actas_pct)) ELSE votes

\* The loop over top_candidates for one region: st holds the row being filled
\* (its columns, a dict from the label to the 'Actual' and 'Proyectado' cells)
\* and the running totals.

RECURSIVE FillRow(_, _, _, _)
FillRow(st, top_candidates, cand_votes, actas_pct) ==
  IF top_candidates = <<>> THEN st
  ELSE LET cand == Head(top_candidates)
           votes == IF cand \in KeySet(cand_votes) THEN Lookup(cand_votes, cand) ELSE 0
           raw_proj == calculate_projection(votes, actas_pct)
           projected == RowProjection(votes, actas_pct)
           added == IF actas_pct > 0 THEN raw_proj ELSE Rat(votes)
           old == Lookup(st.totals, cand)
       IN FillRow([cols |-> Store(st.cols, Label(cand),
                                  [Actual |-> votes, Proyectado |-> projected]),
                   totals |-> Store(st.totals, cand,
                                    [current |-> old.current + votes,
                                     projected |-> RatAdd(old.projected, added)])],
                  Tail(top_candidates), cand_votes, actas_pct)

\* The row of one region and the totals after it.
RegionRow(totals, top_candidates, region_data) ==
  FillRow([cols |-> <<>>, totals |-> totals], top_candidates,
          CandVotes(Get(region_data, "candidates", <<>>)),
          Get(region_data, "actas_percentage", 0))

\* total_row: for cand in top_candidates: the label's cells from totals[cand].
RECURSIVE TotalRowAcc(_, _, _)
TotalRowAcc(total_row, top_candidates, totals) ==
  IF top_candidates = <<>> THEN total_row
  ELSE LET cand == Head(top_candidates)
           t == Lookup(totals, cand)
       IN TotalRowAcc(Store(total_row, Label(cand),
                            [Actual |-> t.current,
                             Proyectado |-> PyRound(t.projected)]),
                      Tail(top_candidates), totals)

TotalRow(top_candidates, totals) == TotalRowAcc(<<>>, top_candidates, totals)

\* return None, None
NoTable == [kind |-> "none"]

\* for dept_name in sorted(departments.keys()): ... dept_rows.append(row)
RECURSIVE DeptRows(_, _, _, _)
DeptRows(st, dept_names, departments, top_candidates) ==
  IF dept_names = <<>> THEN st
  ELSE LET dept_name == Head(dept_names)
           dept_data == Lookup(departments, dept_name)
           r == RegionRow(st.totals, top_candidates, dept_data)
           row == [Departamento |-> dept_name,
                   Actas |-> Get(dept_data, "actas_percentage", 0),
                   cols |-> r.cols]
       IN IF IsReservedKey(dept_name)
          THEN DeptRows(st, Tail(dept_names), departments, top_candidates)
          ELSE DeptRows([rows |-> Append(st.rows, row), totals |-> r.totals],
                        Tail(dept_names), departments, top_candidates)

process_department_data(d) ==
  IF "departments" \notin DOMAIN d THEN NoTable
  ELSE LET departments == d.departments
           top_candidates == TopCandidates(departments)
           st == DeptRows([rows |-> <<>>, totals |-> InitTotals(top_candidates)],
                          SortedKeys(departments), departments, top_candidates)
       IN IF top_candidates = <<>> THEN NoTable
          ELSE [kind |-> "table", rows |-> st.rows,
                total_row |-> TotalRow(top_candidates, st.totals)]

\* for mun_name, mun_data in municipios.items(): the row is built and the
\* totals are added to for every municipality; st.row is the variable 'row',
\* which holds the row built last.
RECURSIVE MunLoop(_, _, _, _)
MunLoop(st, dept_name, municipios, top_candidates) ==
  IF municipios = <<>> THEN st
  ELSE LET mun_name == Head(municipios)[1]
           mun_data == Head(municipios)[2]
           r == RegionRow(st.totals, top_candidates, mun_data)
           row == [Departamento |-> dept_name,
                   Municipio |-> mun_name,
                   Actas |-> Get(mun_data, "actas_percentage", 0),
                   cols |-> r.cols]
       IN MunLoop([row |-> row, totals |-> r.totals],
                  dept_name, Tail(municipios), top_candidates)

\* for dept_name in sorted(departments.keys()): ... the inner loop over the
\* municipalities, and after it mun_rows.append(row): one row for the department.
RECURSIVE MunRows(_, _, _, _)
MunRows(st, dept_names, departments, top_candidates) ==
  IF dept_names = <<>> THEN st
  ELSE LET dept_name == Head(dept_names)
           municipios == Get(Lookup(departments, dept_name), "municipios", <<>>)
           m == MunLoop([row |-> <<>>, totals |-> st.totals],
                        dept_name, municipios, top_candidates)
       IN IF IsReservedKey(dept_name) \/ municipios = <<>>
          THEN MunRows(st, Tail(dept_names), departments, top_candidates)
          ELSE MunRows([rows |-> Append(st.rows, m.row), totals |-> m.totals],
                       Tail(dept_names), departments, top_candidates)

process_municipality_data(d) ==
  IF "departments" \notin DOMAIN d THEN NoTable
  ELSE LET departments == d.departments
           top_candidates == TopCandidates(departments)
           st == MunRows([rows |-> <<>>, totals |-> InitTotals(top_candidates)],
                         SortedKeys(departments), departments, top_candidates)
       IN IF top_candidates = <<>> THEN NoTable
          ELSE IF st.rows = <<>> THEN NoTable
          ELSE [kind |-> "table", rows |-> st.rows,
                total_row |-> TotalRow(top_candidates, st.totals)]

(***************************************************************************)
(* check_data_quality                                                      *)
(***************************************************************************)
\* A variant that inspects the overseas bucket too.
RECURSIVE QualityIssuesWithOverseas(_)
QualityIssuesWithOverseas(departments) ==
  IF departments = <<>> THEN <<>>
  ELSE LET dept_name == Head(departments)[1]
           dept_data == Head(departments)[2]
           total_votes == SumVotes(Get(dept_data, "candidates", <<>>))
           rest == QualityIssuesWithOverseas(Tail(departments))
       IN IF IsReservedKey(dept_name) THEN rest
          ELSE IF total_votes = 0 THEN <<dept_name>> \o rest
          ELSE rest

\* for dept_name, dept_data in departments.items(): ... issues.append(dept_name)
RECURSIVE QualityIssues(_)
QualityIssues(departments) ==
  IF departments = <<>> THEN <<>>
  ELSE LET dept_name == Head(departments)[1]
           dept_data == Head(departments)[2]
           total_votes == SumVotes(Get(dept_data, "candidates", <<>>))
           rest == QualityIssues(Tail(departments))
       IN IF IsReservedKey(dept_name) \/ dept_name = OverseasKey THEN rest
          ELSE IF total_votes = 0 THEN <<dept_name>> \o rest
          ELSE rest

check_data_quality(d) ==
  IF "departments" \notin DOMAIN d THEN <<>>
  ELSE QualityIssues(d.departments)

(***************************************************************************)
(* The snapshots checked.  A snapshot is the document load_cached_data     *)
(* returns: an object whose 'departments' maps a key to a region, a region *)
(* holding 'actas_percentage', 'candidates' and, for a department,         *)
(* 'municipios'.  Candidate names are distinct within a region.            *)
(***************************************************************************)
MaxVotes == 3

SmallVotes == 1

Entry(n, v) == [name |-> n, votes |-> v]

Leaf(p, cs) == [actas_percentage |-> p, candidates |-> cs]

Dept(p, cs, ms) == [actas_percentage |-> p, candidates |-> cs, municipios |-> ms]

\* The candidate lists of at most n entries, with distinct names.
RECURSIVE CandLists(_, _, _)
CandLists(names, votes, n) ==
  IF n = 0 THEN {<<>>}
  ELSE LET shorter == CandLists(names, votes, n - 1)
       IN shorter \cup
          UNION {{Append(s, Entry(x, v)) :
                    x \in names \ {s[i].name : i \in 1..Len(s)}, v \in votes} :
                 s \in {t \in shorter : Len(t) = n - 1}}

\* The dicts of at most n items, with keys of `keys` and values of `values`.
RECURSIVE Dicts(_, _, _)
Dicts(keys, values, n) ==
  IF n = 0 THEN {<<>>}
  ELSE LET shorter == Dicts(keys, values, n - 1)
       IN shorter \cup
          UNION {{Append(s, <<k, v>>) : k \in keys \ KeySet(s), v \in values} :
                 s \in {t \in shorter : Len(t) = n - 1}}

Snapshot(departments) == [mode |-> "BOTH", departments |-> departments]

\* One department with up to four candidates: the ranking and its truncation.
WideSnapshots ==
  {Snapshot(<< <<"A", Leaf(100, cs)>> >>) :
     cs \in CandLists({"X", "Y", "Candidato Largo Uno", "Candidato Largo Dos"},
                      0..MaxVotes, 4)}

\* Up to three departments with one candidate, in every storage order.
DeepSnapshots ==
  {Snapshot(ds) :
     ds \in Dicts({"A", "B", "C"},
                  {Leaf(p, cs) : p \in {0, 40, 100},
                                 cs \in CandLists({"X"}, 0..SmallVotes, 1)}, 3)}

\* Up to two departments with up to two candidates, in both storage orders.
PairSnapshots ==
  {Snapshot(ds) :
     ds \in Dicts({"A", "B"},
                  {Leaf(p, cs) : p \in {50, 100, 150},
                                 cs \in CandLists({"X", "Y"}, 0..SmallVotes, 2)}, 2)}

\* Pseudo-rows among the candidates, reserved keys among the departments.
MixedSnapshots ==
  {Snapshot(ds) :
     ds \in Dicts({"A", "Nacional", "raw_data"},
                  {Leaf(100, cs) :
                     cs \in CandLists({"X"} \cup PseudoRows, 0..SmallVotes, 2)}, 2)}

\* Departments with up to two municipalities each.
MunRegions ==
  {Leaf(0, <<Entry("X", 1)>>),
   Leaf(40, <<Entry("X", 1)>>),
   Leaf(100, <<Entry("Información General", 1), Entry("Y", 1)>>)}

NestedSnapshots ==
  {Snapshot(ds) :
     ds \in Dicts({"A", "B", "Nacional"},
                  {Dept(100, cs, ms) :
                     cs \in {<<Entry("X", 0)>>, <<Entry("X", 1)>>},
                     ms \in Dicts({"m1", "m2"}, MunRegions, 2)}, 2)}

\* Entries and regions with fields missing, and a document with no departments.
PartialEntries ==
  {[name |-> "X", votes |-> 1], [name |-> "X"], [votes |-> 1], [votes |-> 0],
   [name |-> "Y", votes |-> 1], [party |-> "P"]}

PartialLists ==
  {<<>>} \cup {<<c>> : c \in PartialEntries} \cup
  {cs \in {<<c1, c2>> : c1 \in PartialEntries, c2 \in PartialEntries} :
     Get(cs[1], "name", Desconocido) # Get(cs[2], "name", Desconocido)}

PartialSnapshots ==
  {Snapshot(<< <<"A", Leaf(p, cs)>> >>) : p \in {-5, 0, 40}, cs \in PartialLists}
  \cup {Snapshot(<< <<"A", [candidates |-> cs]>> >>) : cs \in PartialLists}
  \cup {Snapshot(<< <<"A", [actas_percentage |-> 40]>> >>), [mode |-> "BOTH"]}

\* The overseas bucket among the departments, a pseudo-row among the candidates.
OverseasSnapshots ==
  {Snapshot(ds) :
     ds \in Dicts({"A", OverseasKey},
                  {Leaf(100, cs) :
                     cs \in CandLists({"X", "Información General"},
                                      0..SmallVotes, 2)}, 2)}

IsSnapshot(d) ==
  \/ d \in NestedSnapshots
  \/ d \in OverseasSnapshots
  \/ d \in DeepSnapshots
  \/ d \in PairSnapshots
  \/ d \in MixedSnapshots
  \/ d \in WideSnapshots
  \/ d \in PartialSnapshots

Modes == {"DEPARTAMENTOS", "MUNICIPIOS"}

Init ==
  /\ IsSnapshot(data)
  /\ op = "load"
  /\ result = <<>>

\* main: the headline summary of one calculation mode.
Summary ==
  /\ op = "load"
  /\ \E calculation_mode \in Modes :
       /\ op' = calculation_mode
       /\ result' = generate_projection_summary(data, calculation_mode)
  /\ UNCHANGED data

\* A variant that sorts each department's candidate list in place.
SortedInPlace(d) ==
  IF "departments" \in DOMAIN d
  THEN [d EXCEPT !.departments =
          [i \in 1..Len(d.departments) |->
             <<d.departments[i][1],
               IF "candidates" \in DOMAIN d.departments[i][2]
               THEN [d.departments[i][2] EXCEPT !.candidates = SortByVotes(@)]
               ELSE d.departments[i][2]>>]]
  ELSE d

DeptTableSortingInPlace ==
  /\ op = "load"
  /\ op' = "dept_table"
  /\ result' = process_department_data(data)
  /\ data' = SortedInPlace(data)

\* main: the table of departments.
DeptTable ==
  /\ op = "load"
  /\ op' = "dept_table"
  /\ result' = process_department_data(data)
  /\ UNCHANGED data

\* main: the table of municipalities.
MunTable ==
  /\ op = "load"
  /\ op' = "mun_table"
  /\ result' = process_municipality_data(data)
  /\ UNCHANGED data

\* main: the data quality warning.
Quality ==
  /\ op = "load"
  /\ op' = "quality"
  /\ result' = check_data_quality(data)
  /\ UNCHANGED data

\* st.rerun(): the script starts over on the cached document.
Rerun ==
  /\ op # "load"
  /\ op' = "load"
  /\ result' = <<>>
  /\ UNCHANGED data

Next == Summary \/ DeptTable \/ MunTable \/ Quality \/ Rerun

Spec == Init /\ [][Next]_vars

(***************************************************************************)
(* The projector alone: calculate_projection applied to one pair of        *)
(* arguments.                                                              *)
(***************************************************************************)
MaxProjVotes == 12

ProjPcts == {-5, 0, 1, 30, 40, 50, 100, 150, 200}

InitProjector ==
  /\ data \in [current_votes : 0..MaxProjVotes, actas_percentage : ProjPcts]
  /\ op = "input"
  /\ result = <<>>

Project ==
  /\ op = "input"
  /\ op' = "project"
  /\ result' = calculate_projection(data.current_votes, data.actas_percentage)
  /\ UNCHANGED data

NextProjector == Project

SpecProjector == InitProjector /\ [][NextProjector]_vars

(***************************************************************************)
(* What the claims are stated with: the leaf regions of a snapshot and the *)
(* sums over them, written as sums over sets and not as the loops above.   *)
(***************************************************************************)
RECURSIVE SumFn(_)
SumFn(f) ==
  IF DOMAIN f = {} THEN 0
  ELSE LET x == CHOOSE x \in DOMAIN f : TRUE
       IN f[x] + SumFn([y \in DOMAIN f \ {x} |-> f[y]])

RECURSIVE RatSumFn(_)
RatSumFn(f) ==
  IF DOMAIN f = {} THEN Rat(0)
  ELSE LET x == CHOOSE x \in DOMAIN f : TRUE
       IN RatAdd(f[x], RatSumFn([y \in DOMAIN f \ {x} |-> f[y]]))

Min(a, b) == IF a < b THEN a ELSE b

HasDepartments(d) == "departments" \in DOMAIN d

\* The departments that are regions: <<key, region>> pairs.
Departments(d) ==
  IF HasDepartments(d)
  THEN {d.departments[i] : i \in 1..Len(d.departments)}
  ELSE {}

RegionDepartments(d) == {x \in Departments(d) : x[1] \notin ReservedKeys}

Municipios(dept_data) ==
  LET ms == Get(dept_data, "municipios", <<>>)
  IN {ms[i] : i \in 1..Len(ms)}

\* The leaf regions of a granularity: <<identity, region>> pairs, the identity
\* <<department>> or <<department, municipality>>.
LeafRegions(d, mode) ==
  IF mode = "DEPARTAMENTOS"
  THEN {<< <<x[1]>>, x[2] >> : x \in RegionDepartments(d)}
  ELSE UNION {{<< <<x[1], m[1]>>, m[2] >> : m \in Municipios(x[2])} :
              x \in RegionDepartments(d)}

PctOf(region) == Get(region, "actas_percentage", 0)

EntriesOf(region) ==
  LET cs == Get(region, "candidates", <<>>)
  IN {cs[i] : i \in 1..Len(cs)}

EntryName(c) == Get(c, "name", Desconocido)

\* The votes of a candidate in a region.
VotesIn(region, name) ==
  LET cs == Get(region, "candidates", <<>>)
      I == {i \in 1..Len(cs) : EntryName(cs[i]) = name}
  IN SumFn([i \in I |-> Get(cs[i], "votes", 0)])

\* The candidates of a granularity: the names in its leaf regions, pseudo-rows apart.
Candidates(d, mode) ==
  UNION {{EntryName(c) : c \in EntriesOf(l[2])} : l \in LeafRegions(d, mode)}
  \ PseudoRows

CurrentTotal(d, mode, name) ==
  SumFn([l \in LeafRegions(d, mode) |-> VotesIn(l[2], name)])

ProjectedTotal(d, mode, name) ==
  RatSumFn([l \in LeafRegions(d, mode) |->
              calculate_projection(VotesIn(l[2], name), PctOf(l[2]))])

SummaryNames(summary) == {summary[i].Candidate : i \in 1..Len(summary)}

ProjectorContract ==
  op = "project" =>
    LET v == data.current_votes
        p == data.actas_percentage
    IN /\ p <= 0 => result = <<v, 1>>
       /\ p > 0 => result[2] > 0 /\ result[1] * p = v * 100 * result[2]
       /\ p = 100 => result = <<v, 1>>

\* 3 votes at 150%: 2.
ProjectorContractWitness ==
  /\ op = "project"
  /\ data = [current_votes |-> 3, actas_percentage |-> 150]
  /\ result = <<2, 1>>

(***************************************************************************)
(* C3.  The summary is in descending order of projected total, and two     *)
(* candidates with equal projected totals are in ascending order of name.  *)
(***************************************************************************)
RankedWithNameTieBreak ==
  op \in Modes =>
    \A i, j \in 1..Len(result) :
      i < j =>
        /\ RatLeq(result[j].ProjectedVotes, result[i].ProjectedVotes)
        /\ result[j].ProjectedVotes = result[i].ProjectedVotes
             => StrLess(result[i].Candidate, result[j].Candidate)

(***************************************************************************)
(* C4.  The headline holds min(3, number of candidates) entries, of        *)
(* distinct candidates, in descending order of projected total, and no     *)
(* candidate left out has a higher projected total than one kept.          *)
(***************************************************************************)
HeadlineIsTopThree ==
  op \in Modes =>
    /\ Len(result) = Min(3, Cardinality(Candidates(data, op)))
    /\ Cardinality(SummaryNames(result)) = Len(result)
    /\ SummaryNames(result) \subseteq Candidates(data, op)
    /\ \A i \in 1..Len(result) :
         result[i].ProjectedVotes = ProjectedTotal(data, op, result[i].Candidate)
    /\ \A i, j \in 1..Len(result) :
         i < j => RatLeq(result[j].ProjectedVotes, result[i].ProjectedVotes)
    /\ \A c \in Candidates(data, op) \ SummaryNames(result) :
         \A i \in 1..Len(result) :
           RatLeq(ProjectedTotal(data, op, c), result[i].ProjectedVotes)

\* Four candidates with four different totals, the one with the least stored
\* first: the headline is the other three, the highest first.
HeadlineIsTopThreeWitness ==
  /\ op = "DEPARTAMENTOS"
  /\ HasDepartments(data)
  /\ data.departments =
       << <<"A", Leaf(100, <<Entry("Y", 0), Entry("X", 2),
                             Entry("Candidato Largo Uno", 3),
                             Entry("Candidato Largo Dos", 1)>>)>> >>
  /\ Len(result) = 3
  /\ result[1].Candidate = "Candidato Largo Uno"
  /\ result[2].Candidate = "X"
  /\ result[3].Candidate = "Candidato Largo Dos"

(***************************************************************************)
(* C5.  A pseudo-row is no candidate of a summary and no column of a       *)
(* table, and its votes reach no total: every output is the output for the *)
(* snapshot with the pseudo-rows taken out of every region.                *)
(***************************************************************************)
WithoutPseudoRows(region) ==
  LET stripped == [f \in DOMAIN region |->
                     IF f = "candidates"
                     THEN SelectSeq(region[f], LAMBDA c : EntryName(c) \notin PseudoRows)
                     ELSE region[f]]
  IN IF "municipios" \in DOMAIN region
     THEN [stripped EXCEPT !.municipios =
             [i \in 1..Len(region.municipios) |->
                <<region.municipios[i][1],
                  [f \in DOMAIN region.municipios[i][2] |->
                     IF f = "candidates"
                     THEN SelectSeq(region.municipios[i][2][f],
                                    LAMBDA c : EntryName(c) \notin PseudoRows)
                     ELSE region.municipios[i][2][f]]>>]]
     ELSE stripped

StripPseudoRows(d) ==
  IF HasDepartments(d)
  THEN [d EXCEPT !.departments =
          [i \in 1..Len(d.departments) |->
             <<d.departments[i][1], WithoutPseudoRows(d.departments[i][2])>>]]
  ELSE d

PseudoLabels == PseudoRows \cup {Label(p) : p \in PseudoRows}

TableLabels(table) ==
  KeySet(table.total_row)
  \cup UNION {KeySet(table.rows[i].cols) : i \in 1..Len(table.rows)}

PseudoRowsNeverCounted ==
  /\ op \in Modes =>
       /\ SummaryNames(result) \cap PseudoRows = {}
       /\ result = generate_projection_summary(StripPseudoRows(data), op)
  /\ op = "dept_table" =>
       /\ result = process_department_data(StripPseudoRows(data))
       /\ result.kind = "table" => TableLabels(result) \cap PseudoLabels = {}
  /\ op = "mun_table" =>
       /\ result = process_municipality_data(StripPseudoRows(data))
       /\ result.kind = "table" => TableLabels(result) \cap PseudoLabels = {}

\* "Información Acta" stored first, with as many votes as X: the table has
\* the column of X alone.
PseudoRowsNeverCountedWitness ==
  /\ op = "dept_table"
  /\ HasDepartments(data)
  /\ data.departments =
       << <<"A", Leaf(100, <<Entry("Información Acta", 1), Entry("X", 1)>>)>> >>
  /\ result.kind = "table"
  /\ Keys(result.total_row) = <<"X">>
  /\ Len(result.rows) = 1

(***************************************************************************)
(* C6.  raw_data and Nacional are no regions: every output is the output   *)
(* for the snapshot without them, no row is theirs and no warning names    *)
(* them.                                                                   *)
(***************************************************************************)
DropReserved(d) ==
  IF HasDepartments(d)
  THEN [d EXCEPT !.departments =
          SelectSeq(d.departments, LAMBDA x : x[1] \notin ReservedKeys)]
  ELSE d

ReservedKeysAreNotRegions ==
  /\ op \in Modes => result = generate_projection_summary(DropReserved(data), op)
  /\ op = "dept_table" =>
       /\ result = process_department_data(DropReserved(data))
       /\ result.kind = "table" =>
            \A i \in 1..Len(result.rows) :
              result.rows[i].Departamento \notin ReservedKeys
  /\ op = "mun_table" =>
       /\ result = process_municipality_data(DropReserved(data))
       /\ result.kind = "table" =>
            \A i \in 1..Len(result.rows) :
              result.rows[i].Departamento \notin ReservedKeys
  /\ op = "quality" =>
       /\ result = check_data_quality(DropReserved(data))
       /\ \A i \in 1..Len(result) : result[i] \notin ReservedKeys

\* Nacional, stored first, is the only key whose candidates have votes: no
\* table is built from it.
ReservedKeysAreNotRegionsWitness ==
  /\ op = "dept_table"
  /\ HasDepartments(data)
  /\ data.departments = << <<"Nacional", Leaf(100, <<Entry("X", 1)>>)>>,
                           <<"A", Leaf(100, <<Entry("X", 0)>>)>> >>
  /\ result = NoTable

(***************************************************************************)
(* The tables, as the claims read them.                                    *)
(***************************************************************************)
TableModes == {"dept_table", "mun_table"}

GranularityOf(table_op) ==
  IF table_op = "dept_table" THEN "DEPARTAMENTOS" ELSE "MUNICIPIOS"

\* The candidates a table has columns for.
Selected(d) == {TopCandidates(d.departments)[i] :
                  i \in 1..Len(TopCandidates(d.departments))}

\* The identity a row carries.
RowId(table_op, row) ==
  IF table_op = "dept_table" THEN <<row.Departamento>>
  ELSE <<row.Departamento, row.Municipio>>

\* The projection of a region's votes before and after rounding.
Unrounded(votes, pct) == IF pct > 0 THEN <<votes * 100, pct>> ELSE <<votes, 1>>

Rounded(votes, pct) == IF pct > 0 THEN PyRound(<<votes * 100, pct>>) ELSE votes

Cell(row, cand) == Lookup(row.cols, Label(cand))

SumOfRows(rows, label) ==
  SumFn([i \in 1..Len(rows) |-> Lookup(rows[i].cols, label).Actual])

SumOfRoundedRows(rows, label) ==
  SumFn([i \in 1..Len(rows) |-> Lookup(rows[i].cols, label).Proyectado])

SumOfUnroundedRows(rows, label) ==
  RatSumFn([i \in 1..Len(rows) |->
              Unrounded(Lookup(rows[i].cols, label).Actual, rows[i].Actas)])

(***************************************************************************)
(* C7.  A table has exactly one row for each leaf region of its            *)
(* granularity, carrying the region's identity, its completeness and, for  *)
(* each selected candidate, the region's votes and their rounded           *)
(* projection (the votes themselves when the completeness is not           *)
(* positive).                                                              *)
(***************************************************************************)
OneRowPerLeafRegion ==
  (op \in TableModes /\ result.kind = "table") =>
    LET leaves == LeafRegions(data, GranularityOf(op))
        rows == result.rows
    IN /\ Len(rows) = Cardinality(leaves)
       /\ \A l \in leaves :
            \E i \in 1..Len(rows) :
              /\ RowId(op, rows[i]) = l[1]
              /\ rows[i].Actas = PctOf(l[2])
              /\ \A c \in Selected(data) :
                   /\ Label(c) \in KeySet(rows[i].cols)
                   /\ Cell(rows[i], c).Actual = VotesIn(l[2], c)
                   /\ Cell(rows[i], c).Proyectado
                        = Rounded(VotesIn(l[2], c), PctOf(l[2]))

(***************************************************************************)
(* C8.  In the total row, for each selected candidate, the current value   *)
(* is the sum of the rows' current values and the projected value is the   *)
(* rounding of the sum of the rows' unrounded projections.                 *)
(***************************************************************************)
TotalRowSumsRows ==
  (op \in TableModes /\ result.kind = "table") =>
    \A c \in Selected(data) :
      /\ Lookup(result.total_row, Label(c)).Actual
           = SumOfRows(result.rows, Label(c))
      /\ Lookup(result.total_row, Label(c)).Proyectado
           = PyRound(SumOfUnroundedRows(result.rows, Label(c)))

HasVotes(region) ==
  \E c \in EntriesOf(region) :
    EntryName(c) \notin PseudoRows /\ Get(c, "votes", 0) # 0

IdLess(a, b) ==
  \/ StrLess(a[1], b[1])
  \/ a[1] = b[1] /\ Len(a) = 2 /\ StrLess(a[2], b[2])

FirstWithVotes(leaves) ==
  CHOOSE l \in leaves :
    HasVotes(l[2]) /\ \A m \in leaves : HasVotes(m[2]) => ~IdLess(m[1], l[1])

TopOfFirstSortedRegion ==
  op = "dept_table" =>
    LET leaves == LeafRegions(data, "DEPARTAMENTOS")
        any == \E l \in leaves : HasVotes(l[2])
    IN /\ result = NoTable <=> ~any
       /\ any =>
            LET first == FirstWithVotes(leaves)
                top == TopNames(FilterCandidates(Get(first[2], "candidates", <<>>)))
            IN KeySet(result.total_row) = {Label(top[i]) : i \in 1..Len(top)}

(***************************************************************************)
(* The same snapshot in another storage order.                             *)
(***************************************************************************)
\* A dict with its items in ascending order of the keys.
SortDict(dd) ==
  LET ks == SortedKeys(dd)
  IN [i \in 1..Len(ks) |-> <<ks[i], Lookup(dd, ks[i])>>]

\* The snapshot with its departments, and the municipalities of each, stored
\* in ascending order of their names.
SortedStorage(d) ==
  IF HasDepartments(d)
  THEN [d EXCEPT !.departments =
          SortDict([i \in 1..Len(d.departments) |->
                      <<d.departments[i][1],
                        IF "municipios" \in DOMAIN d.departments[i][2]
                        THEN [d.departments[i][2] EXCEPT
                                !.municipios = SortDict(@)]
                        ELSE d.departments[i][2]>>])]
  ELSE d

TableOf(table_op, d) ==
  IF table_op = "dept_table" THEN process_department_data(d)
  ELSE process_municipality_data(d)

RowIds(table_op, table) ==
  [i \in 1..Len(table.rows) |-> RowId(table_op, table.rows[i])]

(***************************************************************************)
(* C11.  The rows of a table are in ascending order of the region's name,  *)
(* (department, municipality) for the municipality table, and the regions  *)
(* the rows are for, in their order, are the same in whatever order the    *)
(* snapshot stores its departments and municipalities.                     *)
(***************************************************************************)
RowsInSortedOrder ==
  (op \in TableModes /\ result.kind = "table") =>
    LET ids == RowIds(op, result)
        sorted == TableOf(op, SortedStorage(data))
    IN /\ \A i, j \in 1..Len(ids) : i < j => IdLess(ids[i], ids[j])
       /\ sorted.kind = "table"
       /\ ids = RowIds(op, sorted)

(***************************************************************************)
(* C12.  The percentage of an entry is its projected total divided by the  *)
(* sum of the projected totals of all the candidates of the granularity,   *)
(* those left out of the headline too, times 100, when that sum is         *)
(* positive, and 0 when it is not; no quotient has a zero denominator.     *)
(***************************************************************************)
GrandTotalProjected(d, mode) ==
  RatSumFn([c \in Candidates(d, mode) |-> ProjectedTotal(d, mode, c)])

PercentageIsShareOfGrandTotal ==
  op \in Modes =>
    LET grand == GrandTotalProjected(data, op)
    IN \A i \in 1..Len(result) :
         LET pct == result[i].Percentage
             proj == result[i].ProjectedVotes
         IN /\ pct[2] > 0
            /\ proj[2] > 0
            /\ grand[2] > 0
            /\ IF RatLess(Rat(0), grand)
               THEN pct[1] * grand[1] * proj[2] = 100 * proj[1] * grand[2] * pct[2]
               ELSE pct = Rat(0)

\* X projects to 2 (1 vote at 50%) and Y to 1: 200/3 % and 100/3 %.
PercentageIsShareOfGrandTotalWitness ==
  /\ op = "DEPARTAMENTOS"
  /\ HasDepartments(data)
  /\ data.departments = << <<"A", Leaf(50, <<Entry("X", 1)>>)>>,
                           <<"B", Leaf(100, <<Entry("Y", 1)>>)>> >>
  /\ Len(result) = 2
  /\ result[1].Candidate = "X" /\ result[1].Percentage = <<200, 3>>
  /\ result[2].Candidate = "Y" /\ result[2].Percentage = <<100, 3>>

(***************************************************************************)
(* C13.  As stated: when every department and every municipality reports   *)
(* 0% completeness and 0 votes for every candidate, the summary of either  *)
(* granularity is empty.                                                   *)
(***************************************************************************)
ZeroRegion(region) ==
  /\ PctOf(region) = 0
  /\ \A c \in EntriesOf(region) : Get(c, "votes", 0) = 0

AllRegionsZero(d) ==
  \A x \in RegionDepartments(d) :
    /\ ZeroRegion(x[2])
    /\ \A m \in Municipios(x[2]) : ZeroRegion(m[2])

EmptySummaryWhenAllZero ==
  (op \in Modes /\ HasDepartments(data) /\ AllRegionsZero(data)) => result = <<>>

(***************************************************************************)
(* C14.  When the granularity has no usable leaf region (no department     *)
(* besides the reserved keys, no municipality in MUNICIPIOS mode, or only  *)
(* pseudo-rows in every candidate list) the summary is the empty list,     *)
(* returned as a value; so it is for a document without departments.       *)
(***************************************************************************)
NoUsableLeaves(d, mode) ==
  \A l \in LeafRegions(d, mode) :
    \A c \in EntriesOf(l[2]) : EntryName(c) \in PseudoRows

ExcludedFromQuality == ReservedKeys \cup {OverseasKey}

AllVotesOf(region) ==
  LET cs == Get(region, "candidates", <<>>)
  IN SumFn([i \in 1..Len(cs) |-> Get(cs[i], "votes", 0)])

ZeroReportRegions(d) ==
  {x[1] : x \in {y \in Departments(d) :
                   y[1] \notin ExcludedFromQuality /\ AllVotesOf(y[2]) = 0}}

WithoutMunicipios(d) ==
  IF HasDepartments(d)
  THEN [d EXCEPT !.departments =
          [i \in 1..Len(d.departments) |->
             <<d.departments[i][1],
               [f \in DOMAIN d.departments[i][2] \ {"municipios"} |->
                  d.departments[i][2][f]]>>]]
  ELSE d

ZeroReportRegionsFound ==
  op = "quality" =>
    /\ {result[i] : i \in 1..Len(result)} = ZeroReportRegions(data)
    /\ Len(result) = Cardinality(ZeroReportRegions(data))
    /\ result = check_data_quality(WithoutMunicipios(data))
    /\ (\A x \in Departments(data) : AllVotesOf(x[2]) = 0) =>
         {result[i] : i \in 1..Len(result)}
           = {x[1] : x \in Departments(data)} \ ExcludedFromQuality

\* The overseas bucket and A, both with zero votes: A alone is returned.
ZeroReportRegionsFoundWitness ==
  /\ op = "quality"
  /\ HasDepartments(data)
  /\ data.departments = << <<OverseasKey, Leaf(100, <<Entry("X", 0)>>)>>,
                           <<"A", Leaf(100, <<Entry("X", 0)>>)>> >>
  /\ result = <<"A">>

(***************************************************************************)
(* C16.  As stated: the summary, its candidates, their order and their     *)
(* totals, is the same in whatever order the regions are visited; it is    *)
(* the summary of the snapshot with its regions stored in ascending order. *)
(***************************************************************************)
SummaryIgnoresRegionOrder ==
  op \in Modes => result = generate_projection_summary(SortedStorage(data), op)

(***************************************************************************)
(* C17.  As stated: a region whose completeness is above 100 enters the    *)
(* totals of the summary and of the department table with                  *)
(* votes * 100 / completeness, and the quality report names every          *)
(* department whose completeness is above 100.                             *)
(***************************************************************************)
FormulaAsIs ==
  /\ op \in Modes =>
       \A i \in 1..Len(result) :
         result[i].ProjectedVotes
           = RatSumFn([l \in LeafRegions(data, op) |->
                         LET u == Unrounded(VotesIn(l[2], result[i].Candidate),
                                            PctOf(l[2]))
                         IN Norm(u[1], u[2])])
  /\ (op = "dept_table" /\ result.kind = "table") =>
       \A c \in Selected(data) :
         (\A c2 \in Selected(data) : Label(c2) = Label(c) => c2 = c) =>
           Lookup(result.total_row, Label(c)).Proyectado
             = PyRound(RatSumFn([l \in LeafRegions(data, "DEPARTAMENTOS") |->
                                   LET u == Unrounded(VotesIn(l[2], c), PctOf(l[2]))
                                   IN Norm(u[1], u[2])]))

AnomalousCompletenessFlagged ==
  /\ FormulaAsIs
  /\ op = "quality" =>
       \A x \in RegionDepartments(data) :
         PctOf(x[2]) > 100 => x[1] \in {result[i] : i \in 1..Len(result)}

(***************************************************************************)
(* C18.  An entry without votes counts as 0 votes and an entry without a   *)
(* name goes under the placeholder name: every operation returns what it   *)
(* returns for the snapshot with these two defaults written into the       *)
(* entries, and the summary's totals have a key for the name, given or     *)
(* placeholder, of every entry that is not a pseudo-row.                   *)
(***************************************************************************)
WithDefaults(c) ==
  [f \in DOMAIN c \cup {"name", "votes"} |->
     IF f \in DOMAIN c THEN c[f] ELSE IF f = "name" THEN Desconocido ELSE 0]

RegionWithDefaults(region) ==
  [f \in DOMAIN region |->
     IF f = "candidates"
     THEN [i \in 1..Len(region[f]) |-> WithDefaults(region[f][i])]
     ELSE IF f = "municipios"
     THEN [i \in 1..Len(region[f]) |->
             <<region[f][i][1],
               [h \in DOMAIN region[f][i][2] |->
                  IF h = "candidates"
                  THEN [j \in 1..Len(region[f][i][2][h]) |->
                          WithDefaults(region[f][i][2][h][j])]
                  ELSE region[f][i][2][h]]>>]
     ELSE region[f]]

FillDefaults(d) ==
  IF HasDepartments(d)
  THEN [d EXCEPT !.departments =
          [i \in 1..Len(d.departments) |->
             <<d.departments[i][1], RegionWithDefaults(d.departments[i][2])>>]]
  ELSE d

MissingFieldsDefaulted ==
  /\ op \in Modes =>
       /\ result = generate_projection_summary(FillDefaults(data), op)
       /\ HasDepartments(data) =>
            KeySet(GlobalTotals(data, op))
              = UNION {{WithDefaults(c).name : c \in EntriesOf(l[2])} :
                       l \in LeafRegions(data, op)} \ PseudoRows
  /\ op = "dept_table" => result = process_department_data(FillDefaults(data))
  /\ op = "mun_table" => result = process_municipality_data(FillDefaults(data))
  /\ op = "quality" => result = check_data_quality(FillDefaults(data))

\* An entry with 1 vote and no name before an entry named X with no votes,
\* at 40%: Desconocido with 1 vote projected to 2.5, then X with 0.
MissingFieldsDefaultedWitness ==
  /\ op = "DEPARTAMENTOS"
  /\ HasDepartments(data)
  /\ data.departments = << <<"A", Leaf(40, <<[votes |-> 1], [name |-> "X"]>>)>> >>
  /\ Len(result) = 2
  /\ result[1].Candidate = Desconocido
  /\ result[1].CurrentVotes = 1
  /\ result[1].ProjectedVotes = <<5, 2>>
  /\ result[2].Candidate = "X"
  /\ result[2].CurrentVotes = 0

(***************************************************************************)
(* C19.  No call modifies the snapshot, and what a call returns is what    *)
(* the function returns on the snapshot, whatever was called before: in    *)
(* every step the snapshot is unchanged and the new result is the          *)
(* function of the snapshot alone.                                         *)
(***************************************************************************)
ResultOf(operation, d) ==
  CASE operation \in Modes -> generate_projection_summary(d, operation)
    [] operation = "dept_table" -> process_department_data(d)
    [] operation = "mun_table" -> process_municipality_data(d)
    [] operation = "quality" -> check_data_quality(d)
    [] OTHER -> <<>>

InitTwoRuns ==
  /\ IsSnapshot(data)
  /\ op = "load"
  /\ result = <<>>

FirstRun ==
  /\ op = "load"
  /\ \E calculation_mode \in Modes :
       result' = [mode |-> calculation_mode,
                  first |-> generate_projection_summary(data, calculation_mode)]
  /\ op' = "first"
  /\ UNCHANGED data

\* A variant whose second run meets the departments in the reverse order.
ReversedStorage(d) ==
  IF HasDepartments(d)
  THEN [d EXCEPT !.departments =
          [i \in 1..Len(d.departments) |-> d.departments[Len(d.departments) + 1 - i]]]
  ELSE d

SecondRunInAnotherOrder ==
  /\ op = "first"
  /\ result' = [mode |-> result.mode, first |-> result.first,
                second |-> generate_projection_summary(ReversedStorage(data),
                                                       result.mode)]
  /\ op' = "second"
  /\ UNCHANGED data

SecondRun ==
  /\ op = "first"
  /\ result' = [mode |-> result.mode, first |-> result.first,
                second |-> generate_projection_summary(data, result.mode)]
  /\ op' = "second"
  /\ UNCHANGED data

NextTwoRuns == FirstRun \/ SecondRun

SpecTwoRuns == InitTwoRuns /\ [][NextTwoRuns]_vars

AggregatorTotals(d, mode, cand) ==
  LET global_totals == GlobalTotals(d, mode)
  IN IF cand \in KeySet(global_totals) THEN Lookup(global_totals, cand)
     ELSE [current |-> 0, projected |-> Rat(0)]

TableAgreesWithAggregator ==
  (op \in TableModes /\ result.kind = "table") =>
    \A c \in Selected(data) :
      LET agg == AggregatorTotals(data, GranularityOf(op), c)
          total == Lookup(result.total_row, Label(c))
      IN /\ total.Actual = agg.current
         /\ total.Proyectado = PyRound(agg.projected)

\* The same, for the candidates that share their label with no other.
AgreesWhereLabelsDiffer ==
  (op \in TableModes /\ result.kind = "table") =>
    \A c \in Selected(data) :
      (\A c2 \in Selected(data) : Label(c2) = Label(c) => c2 = c) =>
        LET agg == AggregatorTotals(data, GranularityOf(op), c)
            total == Lookup(result.total_row, Label(c))
        IN /\ total.Actual = agg.current
           /\ total.Proyectado = PyRound(agg.projected)

(***************************************************************************)
(* The data-updated flag.  Two dashboard sessions poll it with             *)
(* check_for_new_data while the scraper writes it.  Here data is the       *)
(* directory (whether the flag file exists, and how many times the scraper *)
(* has written it), op maps a poller to its position in the call and       *)
(* result maps a poller to what its calls have done: their number, what    *)
(* os.path.exists returned in the last one (saw), what the last one        *)
(* returned (last) and how many returned True (trues).  The steps are the  *)
(* system calls: os.path.exists and os.remove are each one step.           *)
(***************************************************************************)
MaxWrites == 2

MaxCalls == 3

Pollers == {"p1", "p2"}

InitPollers ==
  /\ data = [flag |-> FALSE, writes |-> 0]
  /\ op = [p \in Pollers |-> "poll"]
  /\ result = [p \in Pollers |->
                 [calls |-> 0, saw |-> FALSE, last |-> FALSE, trues |-> 0]]

\* The scraper writes the flag file: it exists afterwards, once, whether or
\* not it existed before.
ScraperWrites ==
  /\ data.writes < MaxWrites
  /\ data' = [flag |-> TRUE, writes |-> data.writes + 1]
  /\ UNCHANGED <<op, result>>

\* if os.path.exists(DATA_UPDATED_FILE): ... else: return False
Exists(p) ==
  /\ op[p] = "poll"
  /\ result[p].calls < MaxCalls
  /\ op' = [op EXCEPT ![p] = IF data.flag THEN "remove" ELSE "return"]
  /\ result' = [result EXCEPT ![p] = [calls |-> @.calls + 1, saw |-> data.flag,
                                      last |-> FALSE, trues |-> @.trues]]
  /\ UNCHANGED data

\* A variant that returns True whether or not os.remove succeeded.
RemoveUnchecked(p) ==
  /\ op[p] = "remove"
  /\ data' = [data EXCEPT !.flag = FALSE]
  /\ op' = [op EXCEPT ![p] = "return"]
  /\ result' = [result EXCEPT ![p].last = TRUE, ![p].trues = @ + 1]

\* try: os.remove(DATA_UPDATED_FILE); return True / except: pass; return False.
\* os.remove removes the file if it is there, and raises if it is not (another
\* poller removed it) or if the system refuses; the bare except catches both.
Remove(p) ==
  /\ op[p] = "remove"
  /\ \/ /\ data.flag
        /\ data' = [data EXCEPT !.flag = FALSE]
        /\ result' = [result EXCEPT ![p].last = TRUE, ![p].trues = @ + 1]
     \/ /\ UNCHANGED data
        /\ result' = [result EXCEPT ![p].last = FALSE]
  /\ op' = [op EXCEPT ![p] = "return"]

\* main: on True st.rerun(), which leads back to the polling loop; on False
\* time.sleep(1) and the next iteration.
Continue(p) ==
  /\ op[p] = "return"
  /\ op' = [op EXCEPT ![p] = "poll"]
  /\ UNCHANGED <<data, result>>

NextPollers ==
  \/ ScraperWrites
  \/ \E p \in Pollers : Exists(p)
  \/ \E p \in Pollers : Remove(p)
  \/ \E p \in Pollers : Continue(p)

SpecPollers == InitPollers /\ [][NextPollers]_vars

(***************************************************************************)
(* C22.  The flag is consumed at most once per write: the calls that have  *)
(* returned True, plus one if the flag exists, never outnumber the         *)
(* scraper's writes; a call returns True only in the step in which it      *)
(* removes a flag that existed, after which the flag is absent; and a      *)
(* poller that finds the flag gone at os.remove returns False, no poller   *)
(* ever leaving the call otherwise than by a return.                       *)
(***************************************************************************)
TotalTrues == SumFn([p \in Pollers |-> result[p].trues])

ReturnsTrue(p) == op[p] = "remove" /\ op'[p] = "return" /\ result'[p].last

FlagConsumedOncePerWrite ==
  /\ [](TotalTrues + (IF data.flag THEN 1 ELSE 0) <= data.writes)
  /\ [](\A p \in Pollers : op[p] \in {"poll", "remove", "return"})
  /\ [][\A p \in Pollers :
          /\ ReturnsTrue(p) <=> result'[p].trues = result[p].trues + 1
          /\ result'[p].trues # result[p].trues => ReturnsTrue(p)
          /\ ReturnsTrue(p) => result[p].saw /\ data.flag /\ ~data'.flag
          /\ (op[p] = "remove" /\ ~data.flag /\ op'[p] # "remove")
               => op'[p] = "return" /\ ~result'[p].last]_vars

\* One write; both pollers saw the flag; p1 returned True and p2, which
\* found it gone at os.remove, returned False.
FlagConsumedOncePerWriteWitness ==
  /\ data = [flag |-> FALSE, writes |-> 1]
  /\ op = [p \in Pollers |-> "return"]
  /\ result["p1"] = [calls |-> 1, saw |-> TRUE, last |-> TRUE, trues |-> 1]
  /\ result["p2"] = [calls |-> 1, saw |-> TRUE, last |-> FALSE, trues |-> 0]

====
